---- MODULE Spec2Model ----
(***************************************************************************)
(* Model of eatb.metadata.mets.metsgenerator: the folder-role classifier   *)
(* get_folder_with_USE, the descriptor generator MetsGenerator.createMets  *)
(* and the relationship linker setParentRelation / addChildRelation; and   *)
(* of the descriptor reader eatb.metadata.mets.ParsedMets.                 *)
(*                                                                         *)
(* Text is modelled as a sequence of chunks: a chunk is either the         *)
(* separator "/" or an atomic piece of text that contains no separator.    *)
(* A path segment is the sequence of chunks between two separators, so     *)
(* <<"x", "schemas">> is the segment 'xschemas'.                           *)
(***************************************************************************)
EXTENDS Integers, Sequences, FiniteSets, TLC

\* ------------------------------------------------------------------------
\* Bounds
\* ------------------------------------------------------------------------
MaxPathLen == 4

\* ------------------------------------------------------------------------
\* Path classifier (get_folder_with_USE)
\* ------------------------------------------------------------------------
folders_with_USE == <<"documentation", "schemas", "representations", "data">>

Range(s) == {s[i] : i \in 1..Len(s)}

\* the chunks a path string is drawn from
PathChunks == Range(folders_with_USE) \cup {"/", "x"}

\* str.split('/'): the segments between separators, empty segments kept
RECURSIVE SplitSlash(_)
SplitSlash(str) ==
    IF str = <<>> THEN << <<>> >>
    ELSE LET rest == SplitSlash(Tail(str)) IN
         IF Head(str) = "/" THEN << <<>> >> \o rest
         ELSE << <<Head(str)>> \o Head(rest) >> \o Tail(rest)

\* dir in folders_with_USE: the segment is exactly one of the role tokens
InFoldersWithUSE(seg) == Len(seg) = 1 /\ seg[1] \in Range(folders_with_USE)

\* for dir in dirs[::-1]: if dir in folders_with_USE: return dir
RECURSIVE ScanReversed(_, _)
ScanReversed(dirs, i) ==
    IF i = 0 THEN "other"
    ELSE IF InFoldersWithUSE(dirs[i]) THEN dirs[i][1]
    ELSE ScanReversed(dirs, i - 1)

RECURSIVE ScanForward(_, _)
ScanForward(dirs, i) ==
    IF i > Len(dirs) THEN "other"
    ELSE IF InFoldersWithUSE(dirs[i]) THEN dirs[i][1]
    ELSE ScanForward(dirs, i + 1)

\* a scan that starts at the first segment instead of the last
get_folder_with_USE_forward(path) ==
    IF ~path.isStr THEN "other"
    ELSE ScanForward(SplitSlash(path.chars), 1)

\* path is [isStr, chars]; a non-string has no split(): the AttributeError
\* is caught by the except clause and the function falls through to 'other'
get_folder_with_USE(path) ==
    IF ~path.isStr THEN "other"
    ELSE LET dirs == SplitSlash(path.chars) IN ScanReversed(dirs, Len(dirs))

Str(chars) == [isStr |-> TRUE, chars |-> chars]
NotAString == [isStr |-> FALSE, chars |-> <<>>]

RECURSIVE SeqsUpTo(_, _)
SeqsUpTo(S, n) ==
    IF n = 0 THEN {<<>>}
    ELSE LET shorter == SeqsUpTo(S, n - 1) IN
         shorter \cup {Append(s, x) : s \in {t \in shorter : Len(t) = n - 1}, x \in S}

\* ------------------------------------------------------------------------
\* Relationship linker (setParentRelation / addChildRelation)
\* ------------------------------------------------------------------------
NumProcs == 2
MaxCalls == 2

Procs == 1..NumProcs
PackageTypes == {"SIP", "AIP"}
Identifiers == {"urn:uuid:A", "urn:uuid:B"}
Directions == {"parent", "child"}

\* the file <root_path>/METS.xml: missing, zero bytes long, or a METS document
\* whose relationship structMaps are maps (the other nodes are not touched)
AbsentFile == [kind |-> "absent", maps |-> <<>>]
EmptyFile == [kind |-> "empty", maps |-> <<>>]
Descriptor(maps) == [kind |-> "mets", maps |-> maps]

\* 'parent %s' % packagetype, 'child %s' % packagetype
RelLabel(direction, packagetype) == <<direction, packagetype>>

\* M.mptr({... xlink:href: identifier, "ID": "ID" + uuid4})
Pointer(id, identifier) == [ID |-> id, href |-> identifier]

\* parent_root.find("structMap[@LABEL='<label>']"): index of the first match, 0 for None
FindStructMap(maps, label) ==
    IF \E i \in 1..Len(maps) : maps[i].LABEL = label
    THEN CHOOSE i \in 1..Len(maps) :
             /\ maps[i].LABEL = label
             /\ \A j \in 1..(i - 1) : maps[j].LABEL # label
    ELSE 0

\* a linker that never looks for an existing structMap
AlwaysNewStructMap(maps, label, pointer) ==
    Append(maps, [LABEL |-> label, div |-> <<pointer>>])

\* lines 157-174 / 189-206: append the pointer inside the structMap found,
\* else create structMap + identifiers div + pointer and insert it last in the root
LinkPointer(maps, label, pointer) ==
    LET i == FindStructMap(maps, label) IN
    IF i # 0
    THEN [maps EXCEPT ![i].div = Append(@, pointer)]
    ELSE Append(maps, [LABEL |-> label, div |-> <<pointer>>])

\* ------------------------------------------------------------------------
\* Descriptor generator (createMets): the package on disk
\* ------------------------------------------------------------------------
MaxFiles == 2

\* package roots: '/pkg' and '/data/pkg' (a root below a folder named data)
RootPaths == {<<"pkg">>, <<"data", "pkg">>}

\* directories of the package, relative to the root, in the order os.walk
\* yields them (top-down; the listing order of sub-directories is fixed to
\* this order, the listing order of the files of a directory is free)
PackageDirs ==
    << <<>>,
       <<"data">>,
       <<"docs">>,
       <<"docs", "schemas">>,
       <<"metadata">>,
       <<"metadata", "descriptive">>,
       <<"metadata", "preservation">>,
       <<"metadata", "rep_mig-1">>,
       <<"metadata", "rep_mig-1", "preservation">>,
       <<"metadata", "submission">>,
       <<"representations">>,
       <<"representations", "rep_mig-1">>,
       <<"representations", "rep_mig-1", "data">>,
       <<"schemas">> >>

DirSet == Range(PackageDirs)

IsPrefix(a, b) == Len(a) <= Len(b) /\ SubSeq(b, 1, Len(a)) = a

InMetadataTree(d) == IsPrefix(<<"metadata">>, d)

\* file names that occur in a directory
FileNamesOf(d) == IF InMetadataTree(d) THEN {"premis.xml", "dc.xml"}
                  ELSE {"METS.xml", "a.txt"}

Slots == {[dir |-> d, name |-> n] : d \in DirSet, n \in {"METS.xml", "a.txt", "premis.xml", "dc.xml"}}

FileSlots == {sl \in Slots : sl.name \in FileNamesOf(sl.dir)}

RECURSIVE NamesIn(_, _)
NamesIn(placed, d) ==
    IF placed = <<>> THEN <<>>
    ELSE IF Head(placed).dir = d THEN <<Head(placed).name>> \o NamesIn(Tail(placed), d)
    ELSE NamesIn(Tail(placed), d)

NoDuplicates(s) == \A i, j \in 1..Len(s) : i # j => s[i] # s[j]

\* a directory exists when a file lies in it or below it
DirExists(ls, d) == d = <<>> \/ \E e \in DirSet : IsPrefix(d, e) /\ ls[e] # <<>>

\* the sub-directories os.walk / os.listdir report for d, in listing order
SubDirs(ls, d) ==
    SelectSeq(PackageDirs, LAMBDA e : Len(e) = Len(d) + 1 /\ IsPrefix(d, e) /\ DirExists(ls, e))

Last(s) == s[Len(s)]

\* os.path.join(...) as a string: '/' + name for every path component
RECURSIVE PathStr(_)
PathStr(names) ==
    IF names = <<>> THEN <<>> ELSE <<"/", Head(names)>> \o PathStr(Tail(names))

\* filename.lower()
Lower(name) == IF name = "METS.xml" THEN "mets.xml" ELSE name

\* directory.endswith('/metadata'), directory.endswith('schemas'), ...
EndsWithName(directory, name) == directory # <<>> /\ Last(directory) = name

\* fnmatch.fnmatch(dirname, '*_mig-*')
IsMigrationName(dirname) == dirname = "rep_mig-1"

\* filename.startswith('premis') or filename.endswith('premis.xml')
IsPremisName(filename) == filename = "premis.xml"

\* os.path.isfile(<root>/representations/<dirname>/METS.xml)
RepresentationHasMets(ls, dirname) ==
    /\ <<"representations", dirname>> \in DirSet
    /\ \E i \in 1..Len(ls[<<"representations", dirname>>]) :
           ls[<<"representations", dirname>>][i] = "METS.xml"

\* the (dir, filename) pairs os.walk(<root>/metadata/<dirname>) yields
RECURSIVE FilesOfDirs(_, _)
FilesOfDirs(ls, dirs) ==
    IF dirs = <<>> THEN <<>>
    ELSE LET d == Head(dirs) IN
         [i \in 1..Len(ls[d]) |-> [dir |-> d, name |-> ls[d][i]]] \o FilesOfDirs(ls, Tail(dirs))

WalkFiles(ls, top) ==
    FilesOfDirs(ls, SelectSeq(PackageDirs, LAMBDA e : IsPrefix(top, e)))

Roles == Range(folders_with_USE) \cup {"other"}

MetsDataKeys == {"packageid", "type", "schemas", "parent"}

\* the mets_data dictionaries a caller passes
MetsDataValues ==
    {[keys |-> MetsDataKeys, parent |-> par] : par \in {"", "urn:uuid:parent-1"}} \cup
    {[keys |-> MetsDataKeys \ {k}, parent |-> ""] : k \in MetsDataKeys}

NoCall == [op |-> "none", identifier |-> "none", siblingBefore |-> AbsentFile, alone |-> TRUE]

NoneEnded == [proc |-> 0, op |-> "none", identifier |-> "none", siblingBefore |-> AbsentFile,
              alone |-> TRUE, outcome |-> "none"]

\* ------------------------------------------------------------------------
\* Descriptor reader (ParsedMets) and the root attributes createMets writes
\* ------------------------------------------------------------------------
MaxLocLen == 4

METS_NS == "http://www.loc.gov/METS/"
XLINK_NS == "http://www.w3.org/1999/xlink"
CSIP_NS == "https://DILCIS.eu/XML/METS/CSIPExtensionMETS"

default_mets_schema_location == <<"schemas", "/", "mets.xsd">>
default_csip_location == <<"schemas", "/", "DILCISExtensionMETS.xsd">>
default_xlink_schema_location == <<"https://www.w3.org/1999/xlink.xsd">>

\* a parsed document as far as the reader looks at it: the root attributes as
\* the lists xpath returns for them (empty for a missing attribute) and the
\* file elements of the file section, each by its FLocat href, in document
\* order; isNone marks the value None (no tree set, no file on disk)
Document(objid, type, schemaLocation, files) ==
    [isNone |-> FALSE, OBJID |-> objid, TYPE |-> type,
     schemaLocation |-> schemaLocation, files |-> files]

NoDocument ==
    [isNone |-> TRUE, OBJID |-> <<>>, TYPE |-> <<>>, schemaLocation |-> <<>>, files |-> <<>>]

\* what a call of the reader gives back: a string, a list of file elements,
\* one element, None, or the exception it raises
Returned(kind, text, elements) ==
    [raised |-> "none", kind |-> kind, text |-> text, elements |-> elements]

Raised(exception) ==
    [raised |-> exception, kind |-> "exception", text |-> <<>>, elements |-> <<>>]

NoResult == [raised |-> "none", kind |-> "pending", text |-> <<>>, elements |-> <<>>]

\* ''.join(list of strings)
RECURSIVE JoinAll(_)
JoinAll(strs) == IF strs = <<>> THEN <<>> ELSE Head(strs) \o JoinAll(Tail(strs))

\* str.split(' '): the tokens between blanks, empty tokens kept
RECURSIVE SplitSpace(_)
SplitSpace(str) ==
    IF str = <<>> THEN << <<>> >>
    ELSE LET rest == SplitSpace(Tail(str)) IN
         IF Head(str) = " " THEN << <<>> >> \o rest
         ELSE << <<Head(str)>> \o Head(rest) >> \o Tail(rest)

\* list.index(token): the position of the first occurrence
IndexOf(list, token) ==
    CHOOSE i \in 1..Len(list) : list[i] = token /\ \A j \in 1..(i - 1) : list[j] # token

\* lines 43-46
get_root(tree) ==
    IF tree.isNone THEN Raised("ValueError") ELSE Returned("element", <<>>, <<>>)

\* line 49: None has no getroot()
get_file_elements(tree) ==
    IF tree.isNone THEN Raised("AttributeError") ELSE Returned("list", <<>>, tree.files)

\* lines 51-55
get_first_file_element(tree) ==
    LET file_elements == get_file_elements(tree) IN
    IF file_elements.raised # "none" THEN file_elements
    ELSE IF Len(file_elements.elements) > 0
         THEN Returned("element", <<>>, <<file_elements.elements[1]>>)
         ELSE Returned("None", <<>>, <<>>)

\* the sentinel test left out: the first value of the xpath result is returned
get_obj_id_unchecked(tree) ==
    IF tree.isNone THEN Raised("AttributeError")
    ELSE IF tree.OBJID = <<>> THEN Raised("IndexError")
    ELSE Returned("str", tree.OBJID[1], <<>>)

\* lines 69-71
get_obj_id(tree) ==
    IF tree.isNone THEN Raised("AttributeError")
    ELSE LET xpath_result == tree.OBJID IN
         IF Len(xpath_result) = 1 THEN Returned("str", xpath_result[1], <<>>)
         ELSE Returned("str", <<"urn:uuid:none">>, <<>>)

\* lines 73-75
get_package_type(tree) ==
    IF tree.isNone THEN Raised("AttributeError")
    ELSE LET xpath_result == tree.TYPE IN
         IF Len(xpath_result) = 1 THEN Returned("str", xpath_result[1], <<>>)
         ELSE Returned("str", <<"NONE">>, <<>>)

\* lines 85-90: for every token equal to the METS namespace the token after
\* the FIRST occurrence is read (locations.index) and joined to the root
\* directory by plain concatenation; with no token after it: IndexError
SchemaFileOf(locations, rdir) ==
    IF \A i \in 1..Len(locations) : locations[i] # <<METS_NS>> THEN Returned("str", <<>>, <<>>)
    ELSE LET position == IndexOf(locations, <<METS_NS>>) IN
         IF position + 1 > Len(locations) THEN Raised("IndexError")
         ELSE Returned("str", rdir \o locations[position + 1], <<>>)

\* lines 77-91
get_mets_schema_from_schema_location(tree, rdir) ==
    IF tree.isNone THEN Raised("ValueError")
    ELSE SchemaFileOf(SplitSpace(JoinAll(tree.schemaLocation)), rdir)

\* os.path.relpath(target, start) on absolute paths given by their names
RECURSIVE CommonPrefixLen(_, _)
CommonPrefixLen(a, b) ==
    IF a = <<>> \/ b = <<>> \/ Head(a) # Head(b) THEN 0
    ELSE 1 + CommonPrefixLen(Tail(a), Tail(b))

RelPath(target, start) ==
    LET c == CommonPrefixLen(target, start) IN
    [i \in 1..(Len(start) - c) |-> ".."] \o SubSeq(target, c + 1, Len(target))

\* a relative path as a string: the names joined by '/'
JoinSlash(names) == IF names = <<>> THEN <<>> ELSE Tail(PathStr(names))

\* lines 233-247: the xsi:schemaLocation attribute of the root
SchemaLocationAttr(root, folder, hasMetsXsd, hasXlinkXsd) ==
    LET mets_schema_location ==
            IF hasMetsXsd THEN JoinSlash(RelPath(folder \o <<"mets.xsd">>, root))
            ELSE default_mets_schema_location
        xlink_schema_location ==
            IF hasXlinkXsd THEN JoinSlash(RelPath(folder \o <<"xlink.xsd">>, root))
            ELSE default_xlink_schema_location
    IN <<METS_NS, " ">> \o mets_schema_location \o <<" ", XLINK_NS, " ">>
       \o xlink_schema_location \o <<" ", CSIP_NS, " ">> \o default_csip_location

\* the schema folders a caller passes: the package's own schemas folder or
\* a folder outside the package
SchemaFolders(root) == {root \o <<"schemas">>, <<"opt", "schemas">>}

NotGenerated == [given |-> FALSE, folder |-> <<>>]

VARIABLES usePath, useResult,
          sibling, mets_data_type, rpc, rcall, tree, nextUuid, calls, finished,
          root_path, mets_data, listing, targetFile, pc, error, todo, cur,
          folder_with_USE, filenames, prune, mdTodo, physical_div, nextId,
          mets_filegroups, fileGrps, mets_fileSec, package_div,
          mets_structmap_metadata_div, mets_structmap_schema_div,
          mets_structmap_content_div, mdSecs, mets_structmap_relation, reported,
          root_dir, mets_tree, metsFile, schemafolder, readerCall

useVars == <<usePath, useResult>>
relVars == <<sibling, mets_data_type, rpc, rcall, tree, nextUuid, calls, finished>>

pkgVars == <<root_path, mets_data, listing>>
walkVars == <<todo, cur, folder_with_USE, filenames, prune, mdTodo, physical_div>>
docVars == <<nextId, mets_filegroups, fileGrps, mets_fileSec, package_div,
             mets_structmap_metadata_div, mets_structmap_schema_div,
             mets_structmap_content_div, mdSecs, mets_structmap_relation>>
metsVars == <<pkgVars, targetFile, pc, error, walkVars, docVars, reported>>

readerVars == <<root_dir, mets_tree, metsFile, schemafolder, readerCall>>

vars == <<useVars, relVars, metsVars, readerVars>>

\* the tree and the walk before createMets has built anything
EmptyTree ==
    /\ pc = "start"
    /\ error = "none"
    /\ todo = <<>>
    /\ cur = <<>>
    /\ folder_with_USE = "other"
    /\ filenames = <<>>
    /\ prune = FALSE
    /\ mdTodo = <<>>
    /\ physical_div = 0
    /\ nextId = 1
    /\ mets_filegroups = [r \in Roles |-> 0]
    /\ fileGrps = <<>>
    /\ mets_fileSec = <<>>
    /\ package_div = <<>>
    /\ mets_structmap_metadata_div = <<>>
    /\ mets_structmap_schema_div = <<>>
    /\ mets_structmap_content_div = <<>>
    /\ mdSecs = <<>>
    /\ mets_structmap_relation = <<>>
    /\ reported = <<>>

MetsIdle ==
    /\ root_path = <<"pkg">>
    /\ mets_data = [keys |-> MetsDataKeys, parent |-> ""]
    /\ listing = [d \in DirSet |-> <<>>]
    /\ targetFile = "absent"
    /\ EmptyTree

RelIdle ==
    /\ sibling = AbsentFile
    /\ mets_data_type = [p \in Procs |-> "None"]
    /\ rpc = [p \in Procs |-> "idle"]
    /\ rcall = [p \in Procs |-> NoCall]
    /\ tree = [p \in Procs |-> <<>>]
    /\ nextUuid = 1
    /\ calls = 0
    /\ finished = NoneEnded

UseIdle ==
    /\ usePath = NotAString
    /\ useResult = "pending"

\* no reader constructed, no call made
ReaderIdle ==
    /\ root_dir = <<>>
    /\ mets_tree = NoDocument
    /\ metsFile = NoDocument
    /\ schemafolder = NotGenerated
    /\ readerCall = [op |-> "none", result |-> NoResult]

UseInputs == {Str(c) : c \in SeqsUpTo(PathChunks, MaxPathLen)} \cup {NotAString}

InitUSE ==
    /\ usePath \in UseInputs
    /\ useResult = "pending"
    /\ RelIdle
    /\ MetsIdle
    /\ ReaderIdle

\* one call of get_folder_with_USE(usePath)
CallGetFolderWithUSE ==
    /\ useResult = "pending"
    /\ useResult' = get_folder_with_USE(usePath)
    /\ UNCHANGED <<usePath, relVars, metsVars, readerVars>>

NextUSE == CallGetFolderWithUSE

SpecUSE == InitUSE /\ [][NextUSE]_vars

\* sibling descriptors a package root can hold before any link call: none, one
\* without relationship maps, or one that already records a relationship
InitialSiblings ==
    {AbsentFile, Descriptor(<<>>)} \cup
    {Descriptor(<<[LABEL |-> RelLabel(d, t), div |-> <<Pointer(0, "urn:uuid:A")>>]>>) :
        d \in Directions, t \in PackageTypes}

TypeRank(t) == IF t = "None" THEN 0 ELSE IF t = "AIP" THEN 1 ELSE 2

\* each process is a caller holding its own MetsGenerator; mets_data is None
\* until createMets has run on that instance (mets_data = None, line 66).
\* The callers are interchangeable, so they are numbered in the order of
\* their package types.
InitRel ==
    /\ sibling \in InitialSiblings
    /\ mets_data_type \in [Procs -> PackageTypes \cup {"None"}]
    /\ \A p, q \in Procs : p < q => TypeRank(mets_data_type[p]) <= TypeRank(mets_data_type[q])
    /\ rpc = [p \in Procs |-> "idle"]
    /\ rcall = [p \in Procs |-> NoCall]
    /\ tree = [p \in Procs |-> <<>>]
    /\ nextUuid = 1
    /\ calls = 0
    /\ finished = NoneEnded
    /\ UseIdle
    /\ MetsIdle
    /\ ReaderIdle

\* the call of p ends (by return or by the exception named); finished is the
\* record of the call that ended last: the file as it was when the call was
\* entered and whether the call ran alone (no other call in progress between
\* its entry and its end); the locals of the call are dropped
Finish(p, outcome) ==
    /\ rpc' = [rpc EXCEPT ![p] = "idle"]
    /\ rcall' = [rcall EXCEPT ![p] = NoCall]
    /\ tree' = [tree EXCEPT ![p] = <<>>]
    /\ finished' = [proc |-> p, op |-> rcall[p].op,
                    identifier |-> rcall[p].identifier,
                    siblingBefore |-> rcall[p].siblingBefore,
                    alone |-> rcall[p].alone,
                    outcome |-> outcome]

\* setParentRelation(identifier) / addChildRelation(identifier) is entered
CallRelation(p) ==
    /\ rpc[p] = "idle"
    /\ calls < MaxCalls
    /\ \E op \in Directions, identifier \in Identifiers :
         rcall' = [q \in Procs |->
                     IF q = p
                     THEN [op |-> op, identifier |-> identifier, siblingBefore |-> sibling,
                           alone |-> \A r \in Procs : rpc[r] = "idle"]
                     ELSE IF rpc[q] # "idle" THEN [rcall[q] EXCEPT !.alone = FALSE]
                     ELSE rcall[q]]
    /\ rpc' = [rpc EXCEPT ![p] = "called"]
    /\ calls' = calls + 1
    /\ UNCHANGED <<sibling, mets_data_type, tree, nextUuid, finished>>
    /\ UNCHANGED <<useVars, metsVars, readerVars>>

\* line 151 / 184: self.mets_data['type'] on None raises TypeError
NoPackageType(p) ==
    /\ rpc[p] = "called"
    /\ mets_data_type[p] = "None"
    /\ Finish(p, "TypeError")
    /\ UNCHANGED <<sibling, mets_data_type, nextUuid, calls>>
    /\ UNCHANGED <<useVars, metsVars, readerVars>>

\* line 152 / 185 false: log 'Couldn't find the parent ... Mets file' and return
SiblingMissing(p) ==
    /\ rpc[p] = "called"
    /\ mets_data_type[p] # "None"
    /\ sibling.kind = "absent"
    /\ Finish(p, "returned")
    /\ UNCHANGED <<sibling, mets_data_type, nextUuid, calls>>
    /\ UNCHANGED <<useVars, metsVars, readerVars>>

\* line 152 / 185 true
SiblingExists(p) ==
    /\ rpc[p] = "called"
    /\ mets_data_type[p] # "None"
    /\ sibling.kind # "absent"
    /\ rpc' = [rpc EXCEPT ![p] = "exists"]
    /\ UNCHANGED <<sibling, mets_data_type, rcall, tree, nextUuid, calls, finished>>
    /\ UNCHANGED <<useVars, metsVars, readerVars>>

\* line 154 / 187 on a file without a root element: XMLSyntaxError
ParseError(p) ==
    /\ rpc[p] = "exists"
    /\ sibling.kind = "empty"
    /\ Finish(p, "XMLSyntaxError")
    /\ UNCHANGED <<sibling, mets_data_type, nextUuid, calls>>
    /\ UNCHANGED <<useVars, metsVars, readerVars>>

\* lines 153-176 / 186-208: parse the sibling, build the pointer with a fresh
\* uuid, link it into the in-memory tree and serialize the tree
ParseAndLink(p) ==
    /\ rpc[p] = "exists"
    /\ sibling.kind = "mets"
    /\ tree' = [tree EXCEPT ![p] =
                  LinkPointer(sibling.maps, RelLabel(rcall[p].op, mets_data_type[p]),
                              Pointer(nextUuid, rcall[p].identifier))]
    /\ nextUuid' = nextUuid + 1
    /\ rpc' = [rpc EXCEPT ![p] = "serialized"]
    /\ UNCHANGED <<sibling, mets_data_type, rcall, calls, finished>>
    /\ UNCHANGED <<useVars, metsVars, readerVars>>

\* line 177 / 209: open(parentmets, 'w') truncates the file to zero bytes
OpenForWrite(p) ==
    /\ rpc[p] = "serialized"
    /\ sibling' = EmptyFile
    /\ rpc' = [rpc EXCEPT ![p] = "opened"]
    /\ UNCHANGED <<mets_data_type, rcall, tree, nextUuid, calls, finished>>
    /\ UNCHANGED <<useVars, metsVars, readerVars>>

\* line 178 / 210: etree.tostring(..., encoding='UTF-8') is a bytes object and
\* the file is open in text mode, so write() raises TypeError and writes
\* nothing (createMets decodes the bytes first, line 478; the linker does not)
WriteBytes(p) ==
    /\ rpc[p] = "opened"
    /\ Finish(p, "TypeError")
    /\ UNCHANGED <<sibling, mets_data_type, nextUuid, calls>>
    /\ UNCHANGED <<useVars, metsVars, readerVars>>

NextRel ==
    \E p \in Procs :
        \/ CallRelation(p)
        \/ NoPackageType(p)
        \/ SiblingMissing(p)
        \/ SiblingExists(p)
        \/ ParseError(p)
        \/ ParseAndLink(p)
        \/ OpenForWrite(p)
        \/ WriteBytes(p)

SpecRel == InitRel /\ [][NextRel]_vars

\* ------------------------------------------------------------------------
\* Descriptor generator (createMets): the run
\* ------------------------------------------------------------------------
NoHref == [dir |-> <<>>, name |-> ""]

\* M.fptr({"FILEID": id}); an fptr has no ID and no href of its own
Fptr(id) == [tag |-> "fptr", FILEID |-> id, ID |-> 0, href |-> NoHref]

\* M.mptr({"LOCTYPE": "URL", xlink:href: rel_path_file, "ID": ...})
Mptr(id, href) == [tag |-> "mptr", FILEID |-> 0, ID |-> id, href |-> href]

\* the pointer is built but not appended to the physical division
AppendChildDropped(divs, i, pointer) == divs

AppendChild(divs, i, pointer) == [divs EXCEPT ![i].children = Append(@, pointer)]

\* addFile: a file entry with a fresh ID and the path relative to the root,
\* appended to the file group
FileEntry(id, dir, name) == [ID |-> id, href |-> [dir |-> dir, name |-> name]]

addFile(groups, g, id, dir, name) ==
    [groups EXCEPT ![g].files = Append(@, FileEntry(id, dir, name))]

\* lines 276-279: a file group for every root sub-directory that is a role
\* folder, stored under its role (replacing the entry of the root's own role
\* when the two coincide) and appended to the file section
RECURSIVE SubdirGroups(_, _)
SubdirGroups(subdirs, st) ==
    IF subdirs = <<>> THEN st
    ELSE LET subdir == Last(Head(subdirs)) IN
         IF subdir \in Range(folders_with_USE)
         THEN SubdirGroups(Tail(subdirs),
                  [groups |-> Append(st.groups, [ID |-> st.id, use |-> subdir, files |-> <<>>]),
                   lookup |-> [st.lookup EXCEPT ![subdir] = Len(st.groups) + 1],
                   fileSec |-> Append(st.fileSec, Len(st.groups) + 1),
                   id |-> st.id + 1])
         ELSE SubdirGroups(Tail(subdirs), st)

\* lines 273-274: the file group of the root's own role is put in the lookup
\* table only; it is not appended to mets_fileSec
RootGroup(role, id) ==
    [groups |-> <<[ID |-> id, use |-> role, files |-> <<>>]>>,
     lookup |-> [r \in Roles |-> IF r = role THEN 1 ELSE 0],
     fileSec |-> <<>>,
     id |-> id + 1]

Abort(exception) ==
    /\ pc' = "aborted"
    /\ error' = exception

\* lines 216-219: a key missing from mets_data raises KeyError
MissingConfigKey ==
    /\ pc = "start"
    /\ mets_data.keys # MetsDataKeys
    /\ Abort("KeyError")
    /\ UNCHANGED <<pkgVars, targetFile, walkVars, docVars, reported>>
    /\ UNCHANGED <<useVars, relVars, readerVars>>

\* lines 215-324: the skeleton of the tree, the file groups, the structMaps
CreateSkeleton ==
    /\ pc = "start"
    /\ mets_data.keys = MetsDataKeys
    /\ LET role == get_folder_with_USE(Str(PathStr(root_path)))
           st == SubdirGroups(SubDirs(listing, <<>>), RootGroup(role, 3))
           hasParent == mets_data.parent # ""
       IN /\ fileGrps' = st.groups
          /\ mets_filegroups' = st.lookup
          /\ mets_fileSec' = st.fileSec
          /\ mets_structmap_relation' =
                 IF hasParent THEN <<[ID |-> st.id + 8, href |-> mets_data.parent]>> ELSE <<>>
          /\ nextId' = IF hasParent THEN st.id + 9 ELSE st.id + 7
    /\ todo' = << <<>> >>
    /\ pc' = "walk"
    /\ UNCHANGED <<pkgVars, targetFile, error, cur, folder_with_USE, filenames, prune,
                   mdTodo, physical_div, package_div, mets_structmap_metadata_div,
                   mets_structmap_schema_div, mets_structmap_content_div, mdSecs, reported>>
    /\ UNCHANGED <<useVars, relVars, readerVars>>

\* the walk with the two del statements of lines 345-346 and the one of line
\* 360 left out: the file and sub-directory lists of a metadata directory
\* are kept and os.walk descends into it
EnterDirectoryKeepsLists ==
    /\ pc = "walk"
    /\ todo # <<>>
    /\ LET d == Head(todo)
           hasDiv == d # <<"representations">> /\ d # <<>>
       IN /\ cur' = d
          /\ folder_with_USE' = get_folder_with_USE(Str(PathStr(root_path \o d)))
          /\ package_div' = IF hasDiv
                            THEN Append(package_div, [LABEL |-> d, ID |-> nextId, children |-> <<>>])
                            ELSE package_div
          /\ physical_div' = IF hasDiv THEN Len(package_div) + 1 ELSE 0
          /\ nextId' = IF hasDiv THEN nextId + 1 ELSE nextId
          /\ filenames' = IF d = <<"representations">> THEN <<>> ELSE listing[d]
          /\ prune' = FALSE
          /\ mdTodo' = IF d = <<"metadata">> THEN SubDirs(listing, d) ELSE <<>>
          /\ pc' = IF d = <<"metadata">> THEN "metadata" ELSE "files"
    /\ todo' = Tail(todo)
    /\ UNCHANGED <<pkgVars, targetFile, error, mets_filegroups, fileGrps, mets_fileSec,
                   mets_structmap_metadata_div, mets_structmap_schema_div,
                   mets_structmap_content_div, mdSecs, mets_structmap_relation, reported>>
    /\ UNCHANGED <<useVars, relVars, readerVars>>

\* lines 331-346, 360-361: os.walk yields the next directory; its physical
\* division is created unless it is the root or 'representations' (for which
\* physical_div stays the string '', here 0, and nothing is appended: the
\* files of the root are ignored and the body is skipped for 'representations');
\* a directory whose path ends in '/metadata' loses its file and sub-directory
\* lists, so the conduit.log loop of lines 350-359 never has a file to handle
EnterDirectory ==
    /\ pc = "walk"
    /\ todo # <<>>
    /\ LET d == Head(todo)
           directory == root_path \o d
           hasDiv == d # <<"representations">> /\ d # <<>>
           isMetadata == EndsWithName(directory, "metadata")
       IN /\ cur' = d
          /\ folder_with_USE' = get_folder_with_USE(Str(PathStr(directory)))
          /\ package_div' = IF hasDiv
                            THEN Append(package_div, [LABEL |-> d, ID |-> nextId, children |-> <<>>])
                            ELSE package_div
          /\ physical_div' = IF hasDiv THEN Len(package_div) + 1 ELSE 0
          /\ nextId' = IF hasDiv THEN nextId + 1 ELSE nextId
          /\ filenames' = IF isMetadata \/ d = <<"representations">> THEN <<>> ELSE listing[d]
          /\ prune' = isMetadata
          /\ mdTodo' = IF d = <<"metadata">> THEN SubDirs(listing, d) ELSE <<>>
          /\ pc' = IF d = <<"metadata">> THEN "metadata" ELSE "files"
    /\ todo' = Tail(todo)
    /\ UNCHANGED <<pkgVars, targetFile, error, mets_filegroups, fileGrps, mets_fileSec,
                   mets_structmap_metadata_div, mets_structmap_schema_div,
                   mets_structmap_content_div, mdSecs, mets_structmap_relation, reported>>
    /\ UNCHANGED <<useVars, relVars, readerVars>>

\* the loop over filenames is finished: os.walk descends into the
\* sub-directories still in the list
LeaveDirectory ==
    /\ \/ pc = "files" /\ filenames = <<>>
       \/ pc = "metadata" /\ mdTodo = <<>>
    /\ todo' = (IF prune THEN <<>> ELSE SubDirs(listing, cur)) \o todo
    /\ pc' = "walk"
    /\ UNCHANGED <<pkgVars, targetFile, error, cur, folder_with_USE, filenames, prune,
                   mdTodo, physical_div, docVars, reported>>
    /\ UNCHANGED <<useVars, relVars, readerVars>>

AtFile == pc = "files" /\ filenames # <<>>

IsNestedMets == cur # <<>> /\ Lower(Head(filenames)) = "mets.xml"
IsSchemaFile == cur # <<>> /\ ~IsNestedMets /\ EndsWithName(root_path \o cur, "schemas")
IsContentFile == cur # <<>> /\ ~IsNestedMets /\ ~IsSchemaFile

FileFrame ==
    /\ UNCHANGED <<pkgVars, targetFile, todo, cur, folder_with_USE, mdTodo, physical_div,
                   mets_filegroups, mets_fileSec, mdSecs, mets_structmap_relation>>
    /\ UNCHANGED <<useVars, relVars, readerVars>>

\* lines 433-435: files on IP root level are ignored
IgnoreRootFile ==
    /\ AtFile
    /\ cur = <<>>
    /\ filenames' = Tail(filenames)
    /\ UNCHANGED <<pc, error, prune, nextId, fileGrps, package_div,
                   mets_structmap_metadata_div, mets_structmap_schema_div,
                   mets_structmap_content_div, reported>>
    /\ FileFrame

\* lines 439-458: a nested descriptor: stop the walk below this directory,
\* append the mptr to the physical division, register the file, append its fptr
NestedMets ==
    /\ AtFile
    /\ IsNestedMets
    /\ mets_filegroups[folder_with_USE] # 0
    /\ prune' = TRUE
    /\ fileGrps' = addFile(fileGrps, mets_filegroups[folder_with_USE], nextId + 1, cur, Head(filenames))
    /\ package_div' = AppendChild(AppendChild(package_div, physical_div,
                                              Mptr(nextId, [dir |-> cur, name |-> Head(filenames)])),
                                  physical_div, Fptr(nextId + 1))
    /\ nextId' = nextId + 2
    /\ filenames' = Tail(filenames)
    /\ UNCHANGED <<pc, error, mets_structmap_metadata_div, mets_structmap_schema_div,
                   mets_structmap_content_div, reported>>
    /\ FileFrame

\* line 457 with no file group for the role: KeyError, not caught
NestedMetsKeyError ==
    /\ AtFile
    /\ IsNestedMets
    /\ mets_filegroups[folder_with_USE] = 0
    /\ prune' = TRUE
    /\ package_div' = AppendChild(package_div, physical_div,
                                  Mptr(nextId, [dir |-> cur, name |-> Head(filenames)]))
    /\ nextId' = nextId + 1
    /\ Abort("KeyError")
    /\ UNCHANGED <<filenames, fileGrps, mets_structmap_metadata_div, mets_structmap_schema_div,
                   mets_structmap_content_div, reported>>
    /\ FileFrame

\* lines 459-463: a file of a directory whose path ends in 'schemas'
SchemaFile ==
    /\ AtFile
    /\ IsSchemaFile
    /\ mets_filegroups[folder_with_USE] # 0
    /\ fileGrps' = addFile(fileGrps, mets_filegroups[folder_with_USE], nextId, cur, Head(filenames))
    /\ mets_structmap_schema_div' = Append(mets_structmap_schema_div, Fptr(nextId))
    /\ package_div' = AppendChild(package_div, physical_div, Fptr(nextId))
    /\ nextId' = nextId + 1
    /\ filenames' = Tail(filenames)
    /\ UNCHANGED <<pc, error, prune, mets_structmap_metadata_div,
                   mets_structmap_content_div, reported>>
    /\ FileFrame

\* line 461 with no file group for the role: KeyError, not caught
SchemaFileKeyError ==
    /\ AtFile
    /\ IsSchemaFile
    /\ mets_filegroups[folder_with_USE] = 0
    /\ Abort("KeyError")
    /\ UNCHANGED <<filenames, prune, nextId, fileGrps, package_div,
                   mets_structmap_metadata_div, mets_structmap_schema_div,
                   mets_structmap_content_div, reported>>
    /\ FileFrame

\* lines 464-469: any other file
ContentFile ==
    /\ AtFile
    /\ IsContentFile
    /\ mets_filegroups[folder_with_USE] # 0
    /\ fileGrps' = addFile(fileGrps, mets_filegroups[folder_with_USE], nextId, cur, Head(filenames))
    /\ mets_structmap_content_div' = Append(mets_structmap_content_div, Fptr(nextId))
    /\ package_div' = AppendChild(package_div, physical_div, Fptr(nextId))
    /\ nextId' = nextId + 1
    /\ filenames' = Tail(filenames)
    /\ UNCHANGED <<pc, error, prune, mets_structmap_metadata_div,
                   mets_structmap_schema_div, reported>>
    /\ FileFrame

\* lines 470-471: KeyError caught, the lookup failure is logged, next file
ContentFileKeyError ==
    /\ AtFile
    /\ IsContentFile
    /\ mets_filegroups[folder_with_USE] = 0
    /\ reported' = Append(reported, [role |-> folder_with_USE, dir |-> cur, name |-> Head(filenames)])
    /\ filenames' = Tail(filenames)
    /\ UNCHANGED <<pc, error, prune, nextId, fileGrps, package_div,
                   mets_structmap_metadata_div, mets_structmap_schema_div,
                   mets_structmap_content_div>>
    /\ FileFrame

\* addFile (lines 111-113) on a file that has vanished or cannot be read:
\* OSError, not caught; a nested descriptor's mptr is already appended
AddFileIOError ==
    /\ AtFile
    /\ cur # <<>>
    /\ mets_filegroups[folder_with_USE] # 0
    /\ prune' = (prune \/ IsNestedMets)
    /\ package_div' = IF IsNestedMets
                      THEN AppendChild(package_div, physical_div,
                                       Mptr(nextId, [dir |-> cur, name |-> Head(filenames)]))
                      ELSE package_div
    /\ nextId' = IF IsNestedMets THEN nextId + 1 ELSE nextId
    /\ Abort("OSError")
    /\ UNCHANGED <<filenames, fileGrps, mets_structmap_metadata_div, mets_structmap_schema_div,
                   mets_structmap_content_div, reported>>
    /\ FileFrame

\* make_mdref + M.mdRef: a metadata reference with its section (a new dmdSec
\* inserted into the root, or a new digiprovMD appended to the amdSec)
MdRef(section, id, file, mdtype) ==
    [section |-> section, ID |-> id, href |-> file, MDTYPE |-> mdtype]

\* lines 372-396: a migration folder classifies by the directory of the file
MigrationSection(file) ==
    IF EndsWithName(file.dir, "descriptive") THEN "dmdSec"
    ELSE IF EndsWithName(file.dir, "preservation") THEN "digiprovMD"
    ELSE "unclassified"

\* lines 403-429: any other folder classifies by the name of the folder
ListedSection(dirname) ==
    IF dirname = "descriptive" THEN "dmdSec"
    ELSE IF dirname = "preservation" \/ dirname = "conduit" THEN "digiprovMD"
    ELSE "unclassified"

MdTypeOf(section, filename) ==
    IF section = "digiprovMD" /\ IsPremisName(filename) THEN "PREMIS" ELSE "OTHER"

SectionOf(dirname, file) ==
    IF IsMigrationName(dirname) THEN MigrationSection(file) ELSE ListedSection(dirname)

\* the loop over the files of one metadata folder: per classified file a
\* section ID and a reference ID, the reference, a pointer in the logical
\* 'metadata files' division and a pointer in the physical division
RECURSIVE RegisterMetadata(_, _, _)
RegisterMetadata(dirname, files, st) ==
    IF files = <<>> THEN st
    ELSE LET file == Head(files)
             section == SectionOf(dirname, file)
         IN IF section = "unclassified"
            THEN RegisterMetadata(dirname, Tail(files), st)
            ELSE RegisterMetadata(dirname, Tail(files),
                     [mdSecs |-> Append(st.mdSecs,
                                        MdRef(section, st.id + 1, file, MdTypeOf(section, file.name))),
                      metadata_div |-> Append(st.metadata_div, Fptr(st.id + 1)),
                      children |-> Append(st.children, Fptr(st.id + 1)),
                      id |-> st.id + 2])

AtMetadataFolder == pc = "metadata" /\ mdTodo # <<>>

\* the files the folder at the head of mdTodo contributes
FolderFiles == WalkFiles(listing, Head(mdTodo))

ClassifiedFiles ==
    SelectSeq(FolderFiles, LAMBDA file : SectionOf(Last(Head(mdTodo)), file) # "unclassified")

MetadataFrame ==
    /\ UNCHANGED <<pkgVars, targetFile, todo, cur, folder_with_USE, filenames, prune,
                   physical_div, mets_filegroups, fileGrps, mets_fileSec,
                   mets_structmap_schema_div, mets_structmap_content_div,
                   mets_structmap_relation, reported>>
    /\ UNCHANGED <<useVars, relVars, readerVars>>

\* lines 363-368: a '*_mig-*' folder whose representation has its own METS.xml
MigrationFolderCovered ==
    /\ AtMetadataFolder
    /\ IsMigrationName(Last(Head(mdTodo)))
    /\ RepresentationHasMets(listing, Last(Head(mdTodo)))
    /\ mdTodo' = Tail(mdTodo)
    /\ UNCHANGED <<pc, error, nextId, package_div, mets_structmap_metadata_div, mdSecs>>
    /\ MetadataFrame

\* lines 369-429: every file of the folder is classified and registered
\* (migration folders only when the representation has no METS.xml)
MetadataFolder ==
    /\ AtMetadataFolder
    /\ ~(IsMigrationName(Last(Head(mdTodo))) /\ RepresentationHasMets(listing, Last(Head(mdTodo))))
    /\ LET st == RegisterMetadata(Last(Head(mdTodo)), FolderFiles,
                     [mdSecs |-> mdSecs, metadata_div |-> mets_structmap_metadata_div,
                      children |-> package_div[physical_div].children, id |-> nextId])
       IN /\ mdSecs' = st.mdSecs
          /\ mets_structmap_metadata_div' = st.metadata_div
          /\ package_div' = [package_div EXCEPT ![physical_div].children = st.children]
          /\ nextId' = st.id
    /\ mdTodo' = Tail(mdTodo)
    /\ UNCHANGED <<pc, error>>
    /\ MetadataFrame

\* make_mdref (lines 143-145) on a metadata file that has vanished or cannot
\* be read: OSError, not caught
MetadataIOError ==
    /\ AtMetadataFolder
    /\ ~(IsMigrationName(Last(Head(mdTodo))) /\ RepresentationHasMets(listing, Last(Head(mdTodo))))
    /\ ClassifiedFiles # <<>>
    /\ Abort("OSError")
    /\ UNCHANGED <<mdTodo, nextId, package_div, mets_structmap_metadata_div, mdSecs>>
    /\ MetadataFrame

\* the write placed inside the walk loop: the file is written after every directory
WriteMetsInsideLoop ==
    /\ pc = "walk"
    /\ targetFile' = "written"
    /\ pc' = IF todo = <<>> THEN "done" ELSE pc
    /\ UNCHANGED <<pkgVars, error, walkVars, docVars, reported>>
    /\ UNCHANGED <<useVars, relVars, readerVars>>

\* lines 473-478: serialize the tree, open the target file and write the
\* decoded text to it; a failure of the write itself is not modelled
WriteMets ==
    /\ pc = "walk"
    /\ todo = <<>>
    /\ targetFile' = "written"
    /\ pc' = "done"
    /\ UNCHANGED <<pkgVars, error, walkVars, docVars, reported>>
    /\ UNCHANGED <<useVars, relVars, readerVars>>

NextMets ==
    \/ MissingConfigKey
    \/ CreateSkeleton
    \/ EnterDirectory
    \/ LeaveDirectory
    \/ IgnoreRootFile
    \/ NestedMets
    \/ NestedMetsKeyError
    \/ SchemaFile
    \/ SchemaFileKeyError
    \/ ContentFile
    \/ ContentFileKeyError
    \/ AddFileIOError
    \/ MigrationFolderCovered
    \/ MetadataFolder
    \/ MetadataIOError
    \/ WriteMets

\* the packages: at most MaxFiles files, placed in any directories and listed
\* in any order
PlacedFiles == {s \in SeqsUpTo(FileSlots, MaxFiles) : NoDuplicates(s)}

Init ==
    /\ root_path \in RootPaths
    /\ mets_data \in MetsDataValues
    /\ \E placed \in PlacedFiles : listing = [d \in DirSet |-> NamesIn(placed, d)]
    /\ targetFile \in {"absent", "previous"}
    /\ EmptyTree
    /\ UseIdle
    /\ RelIdle
    /\ ReaderIdle

Spec == Init /\ [][NextMets]_vars

\* ------------------------------------------------------------------------
\* Descriptor reader (ParsedMets): the calls
\* ------------------------------------------------------------------------
\* the chunks an xsi:schemaLocation value is drawn from: the blank, the METS
\* namespace and one other token
LocChunks == {" ", METS_NS, "x"}

\* the xpath results for @OBJID, @TYPE and @xsi:schemaLocation of a root
ObjIds == {<<>>, << <<"urn:uuid:A">> >>}
Types == {<<>>, << <<"Databases">> >>}
SchemaLocations == {<<>>} \cup {<<loc>> : loc \in SeqsUpTo(LocChunks, MaxLocLen)}
FileLists == {<<>>, << <<"data", "/", "a.txt">>, <<"data", "/", "b.txt">> >>}

\* the descriptors a reader can find at mets_file_path; NoDocument: no file
DocumentsOnDisk ==
    {Document(o, t, l, f) : o \in ObjIds, t \in Types, l \in SchemaLocations, f \in FileLists}
    \cup {NoDocument}

\* trees parsed elsewhere and handed to set_parsed_mets
ParsedTrees == {Document(<<>>, <<>>, <<>>, <<>>)}

\* ParsedMets(rdir) is constructed on the package root of the generator, given
\* with or without a trailing separator; mets_tree is None (lines 22-23)
InitReader ==
    /\ root_path \in RootPaths
    /\ root_dir \in {PathStr(root_path), PathStr(root_path) \o <<"/">>}
    /\ mets_tree = NoDocument
    /\ metsFile \in DocumentsOnDisk
    /\ schemafolder = NotGenerated
    /\ readerCall = [op |-> "none", result |-> NoResult]
    /\ mets_data = [keys |-> MetsDataKeys, parent |-> ""]
    /\ listing = [d \in DirSet |-> <<>>]
    /\ targetFile = IF metsFile.isNone THEN "absent" ELSE "previous"
    /\ EmptyTree
    /\ UseIdle
    /\ RelIdle

ReaderFrame ==
    /\ UNCHANGED <<root_dir, metsFile, schemafolder>>
    /\ UNCHANGED <<useVars, relVars, metsVars>>

\* createMets as the reader sees it, before the reader is used: the root with
\* OBJID, TYPE 'Databases' and xsi:schemaLocation (lines 226-247) and the
\* file written (lines 473-478), for a package that holds nothing but the
\* schema folder when that folder lies inside it (the walk is the subject of
\* Spec); the schema files inside the package are registered in the file
\* group 'schemas', listed mets.xsd first
CreateMetsForReader ==
    /\ readerCall.op = "none"
    /\ schemafolder = NotGenerated
    /\ \E folder \in SchemaFolders(root_path), hasMetsXsd, hasXlinkXsd \in BOOLEAN :
         LET inside == IsPrefix(root_path, folder)
             names == SelectSeq(<<"mets.xsd", "xlink.xsd">>,
                                LAMBDA n : inside /\ IF n = "mets.xsd" THEN hasMetsXsd
                                                     ELSE hasXlinkXsd)
         IN /\ schemafolder' = [given |-> TRUE, folder |-> PathStr(folder)]
            /\ metsFile' = Document(<< <<"urn:uuid:A">> >>, << <<"Databases">> >>,
                                    <<SchemaLocationAttr(root_path, folder, hasMetsXsd, hasXlinkXsd)>>,
                                    [i \in 1..Len(names) |-> <<"schemas", "/", names[i]>>])
    /\ targetFile' = "written"
    /\ UNCHANGED <<root_dir, mets_tree, readerCall>>
    /\ UNCHANGED <<pkgVars, pc, error, walkVars, docVars, reported>>
    /\ UNCHANGED <<useVars, relVars>>

\* lines 34-41: lxml.etree.parse raises OSError when the file does not exist
\* and leaves mets_tree as it was
LoadMets ==
    /\ mets_tree' = IF metsFile.isNone THEN mets_tree ELSE metsFile
    /\ readerCall' = [op |-> "load_mets",
                      result |-> IF metsFile.isNone THEN Raised("OSError")
                                 ELSE Returned("None", <<>>, <<>>)]
    /\ ReaderFrame

\* lines 25-32
SetParsedMets ==
    /\ \E pmets \in ParsedTrees : mets_tree' = pmets
    /\ readerCall' = [op |-> "set_parsed_mets", result |-> Returned("None", <<>>, <<>>)]
    /\ ReaderFrame

CallGetRoot ==
    /\ readerCall' = [op |-> "get_root", result |-> get_root(mets_tree)]
    /\ UNCHANGED mets_tree
    /\ ReaderFrame

CallGetFileElements ==
    /\ readerCall' = [op |-> "get_file_elements", result |-> get_file_elements(mets_tree)]
    /\ UNCHANGED mets_tree
    /\ ReaderFrame

CallGetFirstFileElement ==
    /\ readerCall' = [op |-> "get_first_file_element", result |-> get_first_file_element(mets_tree)]
    /\ UNCHANGED mets_tree
    /\ ReaderFrame

CallGetObjId ==
    /\ readerCall' = [op |-> "get_obj_id", result |-> get_obj_id(mets_tree)]
    /\ UNCHANGED mets_tree
    /\ ReaderFrame

CallGetPackageType ==
    /\ readerCall' = [op |-> "get_package_type", result |-> get_package_type(mets_tree)]
    /\ UNCHANGED mets_tree
    /\ ReaderFrame

CallGetMetsSchema ==
    /\ readerCall' = [op |-> "get_mets_schema_from_schema_location",
                      result |-> get_mets_schema_from_schema_location(mets_tree, root_dir)]
    /\ UNCHANGED mets_tree
    /\ ReaderFrame

NextReader ==
    \/ CreateMetsForReader
    \/ LoadMets
    \/ SetParsedMets
    \/ CallGetRoot
    \/ CallGetFileElements
    \/ CallGetFirstFileElement
    \/ CallGetObjId
    \/ CallGetPackageType
    \/ CallGetMetsSchema

SpecReader == InitReader /\ [][NextReader]_vars

\* ------------------------------------------------------------------------
\* Properties of the path classifier (SpecUSE)
\* ------------------------------------------------------------------------
\* position k of the string holds a role token that is a whole segment
RoleSegmentAt(chars, k) ==
    /\ chars[k] \in Range(folders_with_USE)
    /\ k = 1 \/ chars[k - 1] = "/"
    /\ k = Len(chars) \/ chars[k + 1] = "/"

RoleSegments(chars) == {k \in 1..Len(chars) : RoleSegmentAt(chars, k)}

\* C10: get_folder_with_USE returns the right-most segment that is one of
\* documentation, schemas, representations, data; 'other' when no segment
\* matches; and 'other', without raising, for an input that is not a string
C10_RightmostRoleOrOther ==
    useResult # "pending" =>
        IF ~usePath.isStr \/ RoleSegments(usePath.chars) = {}
        THEN useResult = "other"
        ELSE \E k \in RoleSegments(usePath.chars) :
                 /\ useResult = usePath.chars[k]
                 /\ \A j \in RoleSegments(usePath.chars) : j <= k

\* a classified path with two different role segments
C10_Witness ==
    /\ useResult # "pending"
    /\ usePath.isStr
    /\ \E j, k \in RoleSegments(usePath.chars) :
           j < k /\ usePath.chars[j] # usePath.chars[k] /\ useResult = usePath.chars[k]

\* ------------------------------------------------------------------------
\* Properties of the relationship linker (SpecRel)
\* ------------------------------------------------------------------------
UniqueLabels(maps) ==
    \A i, j \in 1..Len(maps) : maps[i].LABEL = maps[j].LABEL => i = j

Linking(p) == rpc[p] \in {"serialized", "opened"}

\* C2: the sibling file and the tree every call builds hold at most one
\* relationship structMap per direction-and-package-type label, and the
\* pointer of the call is the last one inside the structMap with its label
C2_OneStructMapPerLabel ==
    /\ UniqueLabels(sibling.maps)
    /\ \A p \in Procs :
         Linking(p) =>
           /\ UniqueLabels(tree[p])
           /\ \E i \in 1..Len(tree[p]) :
                /\ tree[p][i].LABEL = RelLabel(rcall[p].op, mets_data_type[p])
                /\ Last(tree[p][i].div).href = rcall[p].identifier

\* a call found the structMap of its label in the sibling and appended inside it
C2_Witness ==
    \E p \in Procs :
        /\ Linking(p)
        /\ \E i \in 1..Len(tree[p]) :
             /\ tree[p][i].LABEL = RelLabel(rcall[p].op, mets_data_type[p])
             /\ Len(tree[p][i].div) = 2

RECURSIVE PointerCount(_)
PointerCount(maps) ==
    IF maps = <<>> THEN 0 ELSE Len(Head(maps).div) + PointerCount(Tail(maps))

\* the pointers with href X inside the structMap labelled label
PointersTo(maps, label, X) ==
    IF FindStructMap(maps, label) = 0 THEN {}
    ELSE LET div == maps[FindStructMap(maps, label)].div IN
         {div[i].ID : i \in {j \in 1..Len(div) : div[j].href = X}}

\* the call of p ends in this step
Ends(p) == rpc[p] # "idle" /\ rpc'[p] = "idle"

\* the call of p that ends in this step is the second of two calls that ran
\* one after the other, with no other call overlapping either of them
SecondInSuccession(p) ==
    /\ Ends(p)
    /\ rcall[p].alone
    /\ finished.outcome # "none"
    /\ finished.alone

\* C3: addChildRelation(X) called twice in succession by one generator on an
\* existing sibling descriptor leaves two more pointers with href X, with
\* different IDs, in the child division of the sibling
C3_TwoCallsTwoPointers ==
    [][\A p \in Procs :
         ( /\ SecondInSuccession(p)
           /\ finished.proc = p
           /\ mets_data_type[p] # "None"
           /\ finished.op = "child" /\ rcall[p].op = "child"
           /\ finished.identifier = rcall[p].identifier
           /\ finished.siblingBefore.kind = "mets" )
         => LET label == RelLabel("child", mets_data_type[p])
                X == rcall[p].identifier
            IN /\ sibling'.kind = "mets"
               /\ Cardinality(PointersTo(sibling'.maps, label, X))
                    = Cardinality(PointersTo(finished.siblingBefore.maps, label, X)) + 2]_vars

\* C4: a link call entered while the sibling descriptor does not exist returns
\* without raising and leaves the file system as it was
C4_MissingSiblingIsNoOp ==
    (finished.outcome # "none" /\ finished.siblingBefore.kind = "absent") =>
        finished.outcome = "returned" /\ sibling = AbsentFile

\* C5 (serial half): two link calls run one after the other on an existing
\* sibling descriptor leave both pointers in the sibling
C5_SerialRetainsBoth ==
    [][\A p \in Procs :
         ( /\ SecondInSuccession(p)
           /\ mets_data_type[p] # "None"
           /\ mets_data_type[finished.proc] # "None"
           /\ finished.siblingBefore.kind = "mets" )
         => /\ sibling'.kind = "mets"
            /\ PointerCount(sibling'.maps) = PointerCount(finished.siblingBefore.maps) + 2]_vars

\* ------------------------------------------------------------------------
\* Properties of the descriptor generator (Spec)
\* ------------------------------------------------------------------------
HoldsNestedMets(d) == \E i \in 1..Len(listing[d]) : Lower(listing[d][i]) = "mets.xml"

\* C1: in the descriptor written, the physical division of a directory that
\* holds a nested mets.xml has the mptr as its first child
C1_MptrFirst ==
    pc = "done" =>
        \A i \in 1..Len(package_div) :
            HoldsNestedMets(package_div[i].LABEL) =>
                /\ package_div[i].children # <<>>
                /\ package_div[i].children[1].tag = "mptr"

\* C6: the target file changes in one step only: the last one, which writes
\* the tree after the walk has ended; an aborted run never touches it
C6_WriteOnlyAtEnd ==
    [][targetFile' # targetFile =>
          /\ pc = "walk" /\ todo = <<>>
          /\ pc' = "done" /\ targetFile' = "written"]_vars

AllEntries == UNION {Range(fileGrps[g].files) : g \in 1..Len(fileGrps)}

\* a run aborted by an I/O error after a file was registered
C6_Witness ==
    /\ pc = "aborted"
    /\ error = "OSError"
    /\ AllEntries # {}
    /\ targetFile = "previous"

\* C7: a file outside the metadata subtree whose role has no file group is
\* reported and skipped, and the walk goes on with the next file
C7_GapReportedAndSkipped ==
    [][(AtFile /\ cur # <<>> /\ mets_filegroups[folder_with_USE] = 0) =>
          /\ pc' = "files"
          /\ filenames' = Tail(filenames)
          /\ Len(reported') = Len(reported) + 1]_vars

PhysicalPointers ==
    UNION {Range(package_div[i].children) : i \in 1..Len(package_div)}

PointsTo(div, id) == {i \in 1..Len(div) : div[i].tag = "fptr" /\ div[i].FILEID = id}

LogicalCount(id) ==
    Cardinality(PointsTo(mets_structmap_metadata_div, id))
    + Cardinality(PointsTo(mets_structmap_schema_div, id))
    + Cardinality(PointsTo(mets_structmap_content_div, id))

IsDescriptorEntry(e) == Lower(e.href.name) = "mets.xml"
IsSchemaEntry(e) == ~IsDescriptorEntry(e) /\ EndsWithName(e.href.dir, "schemas")
IsContentEntry(e) == ~IsDescriptorEntry(e) /\ ~IsSchemaEntry(e)

\* C8: in the descriptor written, every file entry and metadata reference has
\* a pointer in the physical structMap; a content entry has exactly one
\* logical pointer, under 'content files'; a schema entry exactly one, under
\* 'schema files'; a metadata reference exactly one, under 'metadata files'
C8_EntriesAreReferenced ==
    pc = "done" =>
        /\ \A e \in AllEntries \cup Range(mdSecs) :
               \E ptr \in PhysicalPointers : ptr.tag = "fptr" /\ ptr.FILEID = e.ID
        /\ \A e \in AllEntries :
               /\ IsContentEntry(e) =>
                    LogicalCount(e.ID) = 1 /\ PointsTo(mets_structmap_content_div, e.ID) # {}
               /\ IsSchemaEntry(e) =>
                    LogicalCount(e.ID) = 1 /\ PointsTo(mets_structmap_schema_div, e.ID) # {}
        /\ \A m \in Range(mdSecs) :
               LogicalCount(m.ID) = 1 /\ PointsTo(mets_structmap_metadata_div, m.ID) # {}

\* a descriptor written for a package with a schema file and a metadata file
C8_Witness ==
    /\ pc = "done"
    /\ \E e \in AllEntries : IsSchemaEntry(e)
    /\ mdSecs # <<>>

\* C9: in the descriptor written, every file group that holds a file entry is
\* part of the file section
C9_GroupsInFileSection ==
    pc = "done" =>
        \A g \in 1..Len(fileGrps) :
            fileGrps[g].files # <<>> => g \in Range(mets_fileSec)

\* ------------------------------------------------------------------------
\* Properties of the descriptor reader (SpecReader)
\* ------------------------------------------------------------------------
Accessors == {"get_root", "get_file_elements", "get_first_file_element", "get_obj_id",
              "get_package_type", "get_mets_schema_from_schema_location"}

\* the last call was the accessor op, made on the tree the reader holds now
\* (an accessor leaves mets_tree as it is)
Called(op) == readerCall.op = op

\* C11: on a reader that holds no tree, each of the six accessors raises the
\* ValueError 'mets_tree must be initialized' and fails in no other way
C11_UnloadedRaisesStateError ==
    (readerCall.op \in Accessors /\ mets_tree.isNone) =>
        readerCall.result.raised = "ValueError"

\* the tokens of a schemaLocation value, separated by blanks
Tokens(doc) == SelectSeq(SplitSpace(JoinAll(doc.schemaLocation)), LAMBDA t : t # <<>>)

\* the (namespace, location) pairs: tokens 1 and 2, 3 and 4, ...
MetsPairs(tokens) == {k \in 1..(Len(tokens) \div 2) : tokens[2 * k - 1] = <<METS_NS>>}

\* root directory + location of the first pair with the METS namespace, the
\* empty string when there is no such pair
PairedSchemaFile(tokens, rdir) ==
    IF MetsPairs(tokens) = {} THEN <<>>
    ELSE rdir \o tokens[2 * (CHOOSE k \in MetsPairs(tokens) : \A j \in MetsPairs(tokens) : k <= j)]

\* C12: on a loaded descriptor get_mets_schema_from_schema_location returns
\* the root directory joined with the location paired with the METS namespace
\* in xsi:schemaLocation, and the empty string when the METS namespace is not
\* the namespace of a pair (attribute missing, or no location after it)
C12_SchemaFileOfMetsPair ==
    (Called("get_mets_schema_from_schema_location") /\ ~mets_tree.isNone) =>
        /\ readerCall.result.raised = "none"
        /\ readerCall.result.text = PairedSchemaFile(Tokens(mets_tree), root_dir)

\* C13: the reader constructed on the root of the generator, holding the
\* descriptor createMets wrote, returns the schema folder passed to createMets
C13_RoundTripSchemaFolder ==
    ( /\ Called("get_mets_schema_from_schema_location")
      /\ schemafolder.given
      /\ ~mets_tree.isNone
      /\ mets_tree = metsFile ) =>
        /\ readerCall.result.raised = "none"
        /\ readerCall.result.text = schemafolder.folder

\* C14: on a loaded descriptor get_obj_id returns the OBJID of the root when
\* exactly one value is found and 'urn:uuid:none' otherwise, get_package_type
\* the TYPE of the root or 'NONE'; neither raises
C14_SentinelWhenAbsent ==
    /\ (Called("get_obj_id") /\ ~mets_tree.isNone) =>
           /\ readerCall.result.raised = "none"
           /\ readerCall.result.text = IF Len(mets_tree.OBJID) = 1 THEN mets_tree.OBJID[1]
                                       ELSE <<"urn:uuid:none">>
    /\ (Called("get_package_type") /\ ~mets_tree.isNone) =>
           /\ readerCall.result.raised = "none"
           /\ readerCall.result.text = IF Len(mets_tree.TYPE) = 1 THEN mets_tree.TYPE[1]
                                       ELSE <<"NONE">>

\* get_obj_id answered with the sentinel on a loaded descriptor without OBJID
C14_Witness ==
    /\ Called("get_obj_id")
    /\ readerCall.result.text = <<"urn:uuid:none">>
    /\ ~mets_tree.isNone
    /\ mets_tree.OBJID = <<>>
    /\ mets_tree.TYPE # <<>>

\* ------------------------------------------------------------------------
\* Properties of the descriptor generator (Spec), continued
\* ------------------------------------------------------------------------
\* the files registered in the file groups, in group and registration order
RECURSIVE GroupHrefs(_)
GroupHrefs(groups) ==
    IF groups = <<>> THEN <<>>
    ELSE [i \in 1..Len(Head(groups).files) |-> Head(groups).files[i].href]
         \o GroupHrefs(Tail(groups))

\* the files registered as metadata references
MdHrefs == [i \in 1..Len(mdSecs) |-> mdSecs[i].href]

\* C15: at every point of a run no file is registered twice, be it in the
\* file groups, in the metadata sections or once in each, and no file below
\* <root>/metadata is registered in a file group
C15_RegisteredAtMostOnce ==
    /\ NoDuplicates(GroupHrefs(fileGrps) \o MdHrefs)
    /\ \A i \in 1..Len(GroupHrefs(fileGrps)) : ~InMetadataTree(GroupHrefs(fileGrps)[i].dir)

\* a descriptor written with a file entry and a metadata reference, for a
\* package whose metadata directory holds a file
C15_Witness ==
    /\ pc = "done"
    /\ GroupHrefs(fileGrps) # <<>>
    /\ MdHrefs # <<>>
    /\ \E d \in DirSet : InMetadataTree(d) /\ listing[d] # <<>>

\* the sub-folders of <root>/metadata whose name does not match '*_mig-*'
ListedFolders ==
    {d \in DirSet : Len(d) = 2 /\ d[1] = "metadata" /\ ~IsMigrationName(d[2])
                                /\ DirExists(listing, d)}

\* C16: in the descriptor written, every file found in a metadata sub-folder
\* that is not a migration folder is a metadata reference: in a dmdSec with
\* MDTYPE OTHER for the folder 'descriptive', in a digiprovMD with MDTYPE
\* PREMIS (premis file names) or OTHER for any other folder, and with a
\* pointer in the logical division 'metadata files'
C16_ListedFolderFilesRegistered ==
    pc = "done" =>
        \A d \in ListedFolders :
            \A i \in 1..Len(WalkFiles(listing, d)) :
                LET file == WalkFiles(listing, d)[i] IN
                \E m \in Range(mdSecs) :
                    /\ m.href = file
                    /\ m.section = IF d[2] = "descriptive" THEN "dmdSec" ELSE "digiprovMD"
                    /\ m.MDTYPE = IF d[2] # "descriptive" /\ IsPremisName(file.name)
                                  THEN "PREMIS" ELSE "OTHER"
                    /\ PointsTo(mets_structmap_metadata_div, m.ID) # {}

\* the IDs of the file entries and metadata references that are part of the
\* document: the files of the groups appended to the file section and the
\* references of the metadata sections
SerializedIds ==
    UNION {{e.ID : e \in Range(fileGrps[g].files)} : g \in Range(mets_fileSec)}
    \cup {m.ID : m \in Range(mdSecs)}

LogicalPointers ==
    Range(mets_structmap_metadata_div) \cup Range(mets_structmap_schema_div)
    \cup Range(mets_structmap_content_div)

\* C17: in the descriptor written, the FILEID of every fptr of the physical
\* and the logical structMap is the ID of a file entry or metadata reference
\* contained in the document
C17_PointersResolve ==
    pc = "done" =>
        \A ptr \in PhysicalPointers \cup LogicalPointers :
            ptr.tag = "fptr" => ptr.FILEID \in SerializedIds

\* ------------------------------------------------------------------------
\* Properties of the relationship linker (SpecRel), continued
\* ------------------------------------------------------------------------
\* C18: a link call that found a parseable sibling descriptor and ran with
\* no other call overlapping ends, by return or by exception, with the
\* sibling file a complete descriptor: what it held before plus one pointer
\* with the identifier of the call under the division of its direction and
\* package type; the file is never left empty
C18_SiblingRewrittenComplete ==
    [][\A p \in Procs :
         ( /\ Ends(p)
           /\ rcall[p].alone
           /\ rcall[p].siblingBefore.kind = "mets"
           /\ mets_data_type[p] # "None" )
         => /\ sibling'.kind # "empty"
            /\ \E id \in 1..nextUuid :
                   sibling' = Descriptor(LinkPointer(rcall[p].siblingBefore.maps,
                                                     RelLabel(rcall[p].op, mets_data_type[p]),
                                                     Pointer(id, rcall[p].identifier)))]_vars

====
